---- MODULE Spec2Model ----
(***************************************************************************)
(* Blog domain objects (core/domain/blog_domain.py) and the blog services  *)
(* exercised by core/domain/blog_services_test.py.                         *)
(*                                                                         *)
(* Representation of Python values:                                        *)
(*   - a title, a tag or a URL fragment is a sequence of one-character     *)
(*     strings, so that regular expressions, lower-casing and length are   *)
(*     computed character by character;                                    *)
(*   - None (and any other non-string) is the sequence <<"None">>, whose   *)
(*     single element is not a character;                                  *)
(*   - contents, excerpts, thumbnail filenames, ids and user ids are       *)
(*     opaque strings: only equality, emptiness and the collaborators'     *)
(*     verdicts are ever asked of them;                                    *)
(*   - a raised ValidationError / Exception is the returned message, and   *)
(*     a normal return is OK.                                              *)
(***************************************************************************)
EXTENDS Integers, Sequences, FiniteSets, TLC

VARIABLES
    blog_post_models,     \* datastore: id -> stored BlogPost
    summary_models,       \* datastore: id -> stored BlogPostSummary
    rights_models,        \* datastore: id -> stored BlogPostRights
    last,                 \* the last service call: operation, id, outcome
    input,                \* arguments of the domain-level call under study
    output                \* its outcome

vars == <<blog_post_models, summary_models, rights_models, last, input, output>>
store == <<blog_post_models, summary_models, rights_models, last>>

----------------------------------------------------------------------------
(* Values *)

OK == "OK"
None == <<"None">>
NotAList == << <<"NotAList">> >>
NoThumbnail == "<None>"
NoContent == "<None>"
NoId == "<None>"
NullTime == 0

isinstance_str(x) == x # None
isinstance_list(x) == x # NotAList

ascii_lowercase == {"a", "b"}
ascii_uppercase == {"A", "B"}
whitespace == {" ", "\n"}

RECURSIVE SeqsUpTo(_, _)
SeqsUpTo(S, n) ==
    IF n = 0 THEN {<<>>}
    ELSE LET shorter == SeqsUpTo(S, n - 1)
         IN  shorter \cup {Append(s, c) : s \in {t \in shorter : Len(t) = n - 1}, c \in S}

Range(s) == {s[i] : i \in 1..Len(s)}

lower_char(c) == IF c = "A" THEN "a" ELSE IF c = "B" THEN "b" ELSE c
lower(s) == [i \in 1..Len(s) |-> lower_char(s[i])]
replace_space_by_hyphen(s) == [i \in 1..Len(s) |-> IF s[i] = " " THEN "-" ELSE s[i]]

\* True iff s is one or more non-empty words over Letters joined by single Sep.
words_joined(s, Letters, Sep) ==
    /\ Len(s) > 0
    /\ \A i \in 1..Len(s) : s[i] \in Letters \cup {Sep}
    /\ s[1] \in Letters
    /\ s[Len(s)] \in Letters
    /\ \A i \in 1..(Len(s) - 1) : ~(s[i] = Sep /\ s[i + 1] = Sep)

----------------------------------------------------------------------------
(* Collaborators: constants, utils, html_cleaner *)

MAX_CHARS_IN_BLOG_POST_TITLE == 3
MAX_CHARS_IN_BLOG_POST_URL_FRAGMENT == 3

\* re.match(constants.TAG_REGEX, tag) with TAG_REGEX = '^[a-z ]+$'.  Python's
\* '$' matches at the end of the string and also just before a final newline.
match_TAG_REGEX(tag) ==
    LET n == IF Len(tag) > 0 /\ tag[Len(tag)] = "\n" THEN Len(tag) - 1 ELSE Len(tag)
    IN  /\ n > 0
        /\ \A i \in 1..n : tag[i] \in ascii_lowercase \cup {" "}

\* re.search(r'\s\s+', tag)
search_adjacent_whitespace(tag) ==
    \E i \in 1..(Len(tag) - 1) : tag[i] \in whitespace /\ tag[i + 1] \in whitespace

\* re.match(constants.VALID_BLOG_POST_TITLE_REGEX, title): words (a-zA-Z)
\* separated by spaces.
match_VALID_BLOG_POST_TITLE_REGEX(title) ==
    words_joined(title, ascii_lowercase \cup ascii_uppercase, " ")

utils_require_valid_url_fragment(url_fragment, name, limit) ==
    IF ~isinstance_str(url_fragment)
    THEN "URL Fragment field must be a string"
    ELSE IF url_fragment = <<>>
    THEN "URL Fragment field should not be empty"
    ELSE IF Len(url_fragment) > limit
    THEN "URL Fragment field should not exceed the limit"
    ELSE IF ~words_joined(url_fragment, ascii_lowercase, "-")
    THEN "URL Fragment field contains invalid characters"
    ELSE OK

ValidThumbnails == {"thummbnail.svg", "image.svg"}
utils_require_valid_thumbnail_filename(thumbnail_filename) ==
    IF thumbnail_filename = NoThumbnail THEN OK
    ELSE IF thumbnail_filename \in ValidThumbnails THEN OK
    ELSE "Invalid thumbnail filename"

html_cleaner_clean(content) ==
    IF content = "<p>Hello</p><script>" THEN "<p>Hello</p>" ELSE content

----------------------------------------------------------------------------
(* BlogPost *)

BlogPost(blog_post_id, author_id, title, content, url_fragment, tags, thumbnail_filename, last_updated, published_on) ==
    [ id |-> blog_post_id,
      author_id |-> author_id,
      title |-> title,
      thumbnail_filename |-> thumbnail_filename,
      content |-> html_cleaner_clean(content),
      published_on |-> published_on,
      last_updated |-> last_updated,
      url_fragment |-> url_fragment,
      tags |-> tags ]

require_valid_thumbnail_filename(thumbnail_filename, strict) ==
    IF strict /\ thumbnail_filename = NoThumbnail
    THEN "Expected thumbnail filename to be a string"
    ELSE IF thumbnail_filename = ""
    THEN "Thumbnail filename should not be empty."
    ELSE utils_require_valid_thumbnail_filename(thumbnail_filename)

require_valid_blog_post_id(blog_post_id) ==
    IF blog_post_id = NoId
    THEN "Blog Post ID should be a string"
    ELSE IF Len(blog_post_id) # 12
    THEN "Invalid Blog Post ID."
    ELSE OK

\* Mutant: adjacent whitespace inside a tag is not looked for.
tag_error_without_adjacent_whitespace_check(tag) ==
    IF ~isinstance_str(tag)
    THEN "Expected each tag in 'tags' to be a string"
    ELSE IF ~match_TAG_REGEX(tag)
    THEN "Tags should only contain lowercase letters and spaces"
    ELSE IF tag[1] \notin ascii_lowercase \/ tag[Len(tag)] \notin ascii_lowercase
    THEN "Tags should not start or end with whitespace"
    ELSE OK

tag_error(tag) ==
    IF ~isinstance_str(tag)
    THEN "Expected each tag in 'tags' to be a string"
    ELSE IF ~match_TAG_REGEX(tag)
    THEN "Tags should only contain lowercase letters and spaces"
    ELSE IF tag[1] \notin ascii_lowercase \/ tag[Len(tag)] \notin ascii_lowercase
    THEN "Tags should not start or end with whitespace"
    ELSE IF search_adjacent_whitespace(tag)
    THEN "Adjacent whitespace in tags should be collapsed"
    ELSE OK

RECURSIVE first_tag_error(_)
first_tag_error(tags) ==
    IF tags = <<>> THEN OK
    ELSE IF tag_error(Head(tags)) # OK THEN tag_error(Head(tags))
    ELSE first_tag_error(Tail(tags))

\* Mutant: the check for an empty list is made in relaxed mode instead.
require_valid_tags_empty_refused_when_relaxed(tags, strict) ==
    IF ~isinstance_list(tags)
    THEN "Expected 'tags' to be a list"
    ELSE IF first_tag_error(tags) # OK
    THEN first_tag_error(tags)
    ELSE IF ~strict /\ Len(tags) = 0
    THEN "Atleast one tag should be selected"
    ELSE IF Cardinality(Range(tags)) # Len(tags)
    THEN "Some tags duplicate each other"
    ELSE OK

require_valid_tags(tags, strict) ==
    IF ~isinstance_list(tags)
    THEN "Expected 'tags' to be a list"
    ELSE IF first_tag_error(tags) # OK
    THEN first_tag_error(tags)
    ELSE IF strict /\ Len(tags) = 0
    THEN "Atleast one tag should be selected"
    ELSE IF Cardinality(Range(tags)) # Len(tags)
    THEN "Some tags duplicate each other"
    ELSE OK

\* Mutant: the length comparison is >= instead of >.
require_valid_title_off_by_one(title, strict) ==
    IF ~isinstance_str(title)
    THEN "Title should be a string."
    ELSE IF Len(title) >= MAX_CHARS_IN_BLOG_POST_TITLE
    THEN "Blog Post title should at most have %d chars"
    ELSE IF strict /\ title = <<>>
    THEN "Title should not be empty"
    ELSE IF strict /\ ~match_VALID_BLOG_POST_TITLE_REGEX(title)
    THEN "Title field contains invalid characters."
    ELSE OK

require_valid_title(title, strict) ==
    IF ~isinstance_str(title)
    THEN "Title should be a string."
    ELSE IF Len(title) > MAX_CHARS_IN_BLOG_POST_TITLE
    THEN "Blog Post title should at most have %d chars"
    ELSE IF strict /\ title = <<>>
    THEN "Title should not be empty"
    ELSE IF strict /\ ~match_VALID_BLOG_POST_TITLE_REGEX(title)
    THEN "Title field contains invalid characters."
    ELSE OK

require_valid_url_fragment(url_fragment) ==
    utils_require_valid_url_fragment(
        url_fragment, "Blog Post URL Fragment", MAX_CHARS_IN_BLOG_POST_URL_FRAGMENT)

\* Mutant: the strict branch forgets the URL fragment.
validate_without_url_fragment_check(self, strict) ==
    IF require_valid_blog_post_id(self.id) # OK
    THEN require_valid_blog_post_id(self.id)
    ELSE IF require_valid_title(self.title, strict) # OK
    THEN require_valid_title(self.title, strict)
    ELSE IF require_valid_tags(self.tags, strict) # OK
    THEN require_valid_tags(self.tags, strict)
    ELSE IF require_valid_thumbnail_filename(self.thumbnail_filename, strict) # OK
    THEN require_valid_thumbnail_filename(self.thumbnail_filename, strict)
    ELSE IF self.content = NoContent
    THEN "Expected contents to be a string"
    ELSE IF strict /\ self.content = ""
    THEN "Content can not be empty"
    ELSE OK

\* Mutant: the strict branch forgets the empty-content check.
validate_without_empty_content_check(self, strict) ==
    IF require_valid_blog_post_id(self.id) # OK
    THEN require_valid_blog_post_id(self.id)
    ELSE IF require_valid_title(self.title, strict) # OK
    THEN require_valid_title(self.title, strict)
    ELSE IF require_valid_tags(self.tags, strict) # OK
    THEN require_valid_tags(self.tags, strict)
    ELSE IF require_valid_thumbnail_filename(self.thumbnail_filename, strict) # OK
    THEN require_valid_thumbnail_filename(self.thumbnail_filename, strict)
    ELSE IF self.content = NoContent
    THEN "Expected contents to be a string"
    ELSE IF strict /\ require_valid_url_fragment(self.url_fragment) # OK
    THEN require_valid_url_fragment(self.url_fragment)
    ELSE OK

\* Mutant: the tags are checked before the title.
validate_tags_before_title(self, strict) ==
    IF require_valid_blog_post_id(self.id) # OK
    THEN require_valid_blog_post_id(self.id)
    ELSE IF require_valid_tags(self.tags, strict) # OK
    THEN require_valid_tags(self.tags, strict)
    ELSE IF require_valid_title(self.title, strict) # OK
    THEN require_valid_title(self.title, strict)
    ELSE IF require_valid_thumbnail_filename(self.thumbnail_filename, strict) # OK
    THEN require_valid_thumbnail_filename(self.thumbnail_filename, strict)
    ELSE IF self.content = NoContent
    THEN "Expected contents to be a string"
    ELSE IF strict /\ require_valid_url_fragment(self.url_fragment) # OK
    THEN require_valid_url_fragment(self.url_fragment)
    ELSE IF strict /\ self.content = ""
    THEN "Content can not be empty"
    ELSE OK

validate(self, strict) ==
    IF require_valid_blog_post_id(self.id) # OK
    THEN require_valid_blog_post_id(self.id)
    ELSE IF require_valid_title(self.title, strict) # OK
    THEN require_valid_title(self.title, strict)
    ELSE IF require_valid_tags(self.tags, strict) # OK
    THEN require_valid_tags(self.tags, strict)
    ELSE IF require_valid_thumbnail_filename(self.thumbnail_filename, strict) # OK
    THEN require_valid_thumbnail_filename(self.thumbnail_filename, strict)
    ELSE IF self.content = NoContent
    THEN "Expected contents to be a string"
    ELSE IF strict /\ require_valid_url_fragment(self.url_fragment) # OK
    THEN require_valid_url_fragment(self.url_fragment)
    ELSE IF strict /\ self.content = ""
    THEN "Content can not be empty"
    ELSE OK

----------------------------------------------------------------------------
(* BlogPostSummary *)

\* Mutant: the constructor stores the URL fragment in the title field.
BlogPostSummary_title_from_url_fragment(blog_post_id, author_id, title, summary, url_fragment, tags, thumbnail_filename, last_updated, published_on) ==
    [ id |-> blog_post_id,
      author_id |-> author_id,
      title |-> url_fragment,
      thumbnail_filename |-> thumbnail_filename,
      summary |-> summary,
      published_on |-> published_on,
      last_updated |-> last_updated,
      url_fragment |-> url_fragment,
      tags |-> tags ]

BlogPostSummary(blog_post_id, author_id, title, summary, url_fragment, tags, thumbnail_filename, last_updated, published_on) ==
    [ id |-> blog_post_id,
      author_id |-> author_id,
      title |-> title,
      thumbnail_filename |-> thumbnail_filename,
      summary |-> summary,
      published_on |-> published_on,
      last_updated |-> last_updated,
      url_fragment |-> url_fragment,
      tags |-> tags ]

----------------------------------------------------------------------------
(* BlogPostRights *)

\* Mutant: a new rights object defaults to published.
BlogPostRights_default_published == TRUE

BlogPostRights_default_blog_post_is_published == FALSE

BlogPostRights(blog_post_id, editor_ids, blog_post_is_published) ==
    [ id |-> blog_post_id,
      editor_ids |-> editor_ids,
      blog_post_is_published |-> blog_post_is_published ]

\* Mutant: bool(self.editor_ids) instead of the membership test.
is_editor_of_nonempty(self, user_id) == Len(self.editor_ids) > 0

is_editor(self, user_id) == user_id \in Range(self.editor_ids)

----------------------------------------------------------------------------
(* Blog services: the operations blog_services_test.py drives *)

MaxTime == 2

BlogPostIds == {"blogpostid_a", "blogpostid_b"}
UserIds == {"uid_a", "uid_b"}
NoUser == "<None>"
Times == 1..MaxTime

TitleInputs == {<<"a">>, <<"A">>, <<"a", " ", "b">>, <<>>, <<"a", "1">>, <<"a", "a", "a", "a">>}
ThumbnailInputs == {"thummbnail.svg"}
ContentInputs == {"<p>Hello</p>", ""}
TagsInputs == {<< <<"a">>, <<"b">> >>, <<>>, << <<"a">>, <<"a">> >>}

ChangeDicts ==
    {[title |-> t] : t \in TitleInputs}
    \cup {[thumbnail_filename |-> f] : f \in ThumbnailInputs}
    \cup {[content |-> c] : c \in ContentInputs}
    \cup {[tags |-> g] : g \in TagsInputs}
    \cup {[title |-> <<"a">>, thumbnail_filename |-> "thummbnail.svg", content |-> "<p>Hello</p>"]}
    \cup {[title |-> <<"a">>, thumbnail_filename |-> "thummbnail.svg", content |-> c, tags |-> << <<"a">>, <<"b">> >>] : c \in ContentInputs}
    \cup {[title |-> <<"A">>, tags |-> <<>>]}

generate_url_fragment(title) == replace_space_by_hyphen(lower(title))

generate_summary_of_blog_post(content) ==
    IF content = "<p>Hello</p>" THEN "Hello..." ELSE content \o "..."

compute_summary_of_blog_post(blog_post) ==
    BlogPostSummary(blog_post.id, blog_post.author_id, blog_post.title, generate_summary_of_blog_post(blog_post.content), blog_post.url_fragment, blog_post.tags, blog_post.thumbnail_filename, blog_post.last_updated, blog_post.published_on)

\* A result of a BlogPost mutator: the outcome and the object afterwards.
Result(err, obj) == [err |-> err, obj |-> obj]

\* Mutant: the URL fragment is regenerated along with the title.
update_title_and_url_fragment(self, new_title) ==
    IF require_valid_title(new_title, TRUE) # OK
    THEN Result(require_valid_title(new_title, TRUE), self)
    ELSE Result(OK, [self EXCEPT !.title = new_title, !.url_fragment = generate_url_fragment(new_title)])

update_title(self, new_title) ==
    IF require_valid_title(new_title, TRUE) # OK
    THEN Result(require_valid_title(new_title, TRUE), self)
    ELSE Result(OK, [self EXCEPT !.title = new_title])

update_url_fragment(self, new_url_fragment) ==
    IF require_valid_url_fragment(new_url_fragment) # OK
    THEN Result(require_valid_url_fragment(new_url_fragment), self)
    ELSE Result(OK, [self EXCEPT !.url_fragment = new_url_fragment])

update_thumbnail_filename(self, new_thumbnail_filename) ==
    IF require_valid_thumbnail_filename(self.thumbnail_filename, FALSE) # OK
    THEN Result(require_valid_thumbnail_filename(self.thumbnail_filename, FALSE), self)
    ELSE Result(OK, [self EXCEPT !.thumbnail_filename = new_thumbnail_filename])

update_content(self, content) ==
    Result(OK, [self EXCEPT !.content = html_cleaner_clean(content)])

\* Mutant: the field is written before the check runs.
update_tags_written_before_check(self, tags) ==
    Result(require_valid_tags(tags, TRUE), [self EXCEPT !.tags = tags])

update_tags(self, tags) ==
    IF require_valid_tags(tags, TRUE) # OK
    THEN Result(require_valid_tags(tags, TRUE), self)
    ELSE Result(OK, [self EXCEPT !.tags = tags])

\* One step of apply_change_dict: a failed step keeps its error and skips the rest.
then_title(r, d) ==
    IF r.err # OK \/ "title" \notin DOMAIN d THEN r
    ELSE LET r1 == update_title(r.obj, d.title)
         IN  IF r1.err # OK THEN r1
             ELSE update_url_fragment(r1.obj, generate_url_fragment(d.title))

then_thumbnail(r, d) ==
    IF r.err # OK \/ "thumbnail_filename" \notin DOMAIN d THEN r
    ELSE update_thumbnail_filename(r.obj, d.thumbnail_filename)

then_content(r, d) ==
    IF r.err # OK \/ "content" \notin DOMAIN d THEN r
    ELSE update_content(r.obj, d.content)

then_tags(r, d) ==
    IF r.err # OK \/ "tags" \notin DOMAIN d THEN r
    ELSE update_tags(r.obj, d.tags)

apply_change_dict(blog_post, change_dict) ==
    then_tags(then_content(then_thumbnail(then_title(Result(OK, blog_post), change_dict), change_dict), change_dict), change_dict)

exists(blog_post_id) == blog_post_id \in DOMAIN blog_post_models

Called(op, blog_post_id, err) == [op |-> op, id |-> blog_post_id, err |-> err]

put(models, blog_post_id, obj) ==
    [i \in DOMAIN models \cup {blog_post_id} |-> IF i = blog_post_id THEN obj ELSE models[i]]

delete(models, blog_post_id) ==
    [i \in DOMAIN models \ {blog_post_id} |-> models[i]]

not_found == "Entity for class BlogPostModel with id not found"

NoCall == [fn |-> "none"]

create_new_blog_post(author_id) ==
    \E blog_post_id \in BlogPostIds :
        /\ ~exists(blog_post_id)
        /\ LET blog_post == BlogPost(blog_post_id, author_id, <<>>, "", <<>>, <<>>, NoThumbnail, NullTime, NullTime)
               blog_post_rights == BlogPostRights(blog_post_id, <<author_id>>, BlogPostRights_default_blog_post_is_published)
           IN  /\ blog_post_models' = put(blog_post_models, blog_post_id, blog_post)
               /\ rights_models' = put(rights_models, blog_post_id, blog_post_rights)
               /\ summary_models' = put(summary_models, blog_post_id, compute_summary_of_blog_post(blog_post))
               /\ last' = Called("create", blog_post_id, OK)
        /\ UNCHANGED <<input, output>>

\* The ids of the stored posts whose title is `title`.
query_by_title(title) == {i \in DOMAIN blog_post_models : blog_post_models[i].title = title}

update_blog_post(blog_post_id, change_dict) ==
    /\ UNCHANGED <<rights_models, input, output>>
    /\ IF ~exists(blog_post_id)
       THEN /\ last' = Called("update", blog_post_id, not_found)
            /\ UNCHANGED <<blog_post_models, summary_models>>
       ELSE LET r == apply_change_dict(blog_post_models[blog_post_id], change_dict)
                updated_blog_post == r.obj
            IN  IF r.err # OK
                THEN /\ last' = Called("update", blog_post_id, r.err)
                     /\ UNCHANGED <<blog_post_models, summary_models>>
                ELSE IF "title" \in DOMAIN change_dict /\ query_by_title(updated_blog_post.title) \ {blog_post_id} # {}
                THEN /\ last' = Called("update", blog_post_id, "Blog Post with given title already exists")
                     /\ UNCHANGED <<blog_post_models, summary_models>>
                ELSE /\ blog_post_models' = put(blog_post_models, blog_post_id, updated_blog_post)
                     /\ summary_models' = put(summary_models, blog_post_id, compute_summary_of_blog_post(updated_blog_post))
                     /\ last' = Called("update", blog_post_id, OK)

\* Mutant: the summary is not stamped.
publish_blog_post_without_summary(blog_post_id, now) ==
    /\ UNCHANGED <<input, output, summary_models>>
    /\ exists(blog_post_id)
    /\ validate(blog_post_models[blog_post_id], TRUE) = OK
    /\ rights_models' = put(rights_models, blog_post_id, [rights_models[blog_post_id] EXCEPT !.blog_post_is_published = TRUE])
    /\ blog_post_models' = put(blog_post_models, blog_post_id, [blog_post_models[blog_post_id] EXCEPT !.published_on = now])
    /\ last' = Called("publish", blog_post_id, OK)

publish_blog_post(blog_post_id, now) ==
    /\ UNCHANGED <<input, output>>
    /\ IF ~exists(blog_post_id)
       THEN /\ last' = Called("publish", blog_post_id, "The given blog post does not exist")
            /\ UNCHANGED <<blog_post_models, summary_models, rights_models>>
       ELSE LET blog_post == blog_post_models[blog_post_id]
                blog_post_summary == summary_models[blog_post_id]
                blog_post_rights == rights_models[blog_post_id]
            IN  IF validate(blog_post, TRUE) # OK
                THEN /\ last' = Called("publish", blog_post_id, validate(blog_post, TRUE))
                     /\ UNCHANGED <<blog_post_models, summary_models, rights_models>>
                ELSE /\ rights_models' = put(rights_models, blog_post_id, [blog_post_rights EXCEPT !.blog_post_is_published = TRUE])
                     /\ summary_models' = put(summary_models, blog_post_id, [blog_post_summary EXCEPT !.published_on = now])
                     /\ blog_post_models' = put(blog_post_models, blog_post_id, [blog_post EXCEPT !.published_on = now])
                     /\ last' = Called("publish", blog_post_id, OK)

\* Mutant: only the rights flag is cleared.
unpublish_blog_post_rights_only(blog_post_id) ==
    /\ UNCHANGED <<input, output, summary_models, blog_post_models>>
    /\ exists(blog_post_id)
    /\ rights_models' = put(rights_models, blog_post_id, [rights_models[blog_post_id] EXCEPT !.blog_post_is_published = FALSE])
    /\ last' = Called("unpublish", blog_post_id, OK)

unpublish_blog_post(blog_post_id) ==
    /\ UNCHANGED <<input, output>>
    /\ IF ~exists(blog_post_id)
       THEN /\ last' = Called("unpublish", blog_post_id, "The given blog post does not exist")
            /\ UNCHANGED <<blog_post_models, summary_models, rights_models>>
       ELSE /\ rights_models' = put(rights_models, blog_post_id, [rights_models[blog_post_id] EXCEPT !.blog_post_is_published = FALSE])
            /\ summary_models' = put(summary_models, blog_post_id, [summary_models[blog_post_id] EXCEPT !.published_on = NullTime])
            /\ blog_post_models' = put(blog_post_models, blog_post_id, [blog_post_models[blog_post_id] EXCEPT !.published_on = NullTime])
            /\ last' = Called("unpublish", blog_post_id, OK)

\* Mutant: the rights record is left behind.
delete_blog_post_keeps_rights(blog_post_id) ==
    /\ UNCHANGED <<input, output, rights_models>>
    /\ exists(blog_post_id)
    /\ blog_post_models' = delete(blog_post_models, blog_post_id)
    /\ summary_models' = delete(summary_models, blog_post_id)
    /\ last' = Called("delete", blog_post_id, OK)

delete_blog_post(blog_post_id) ==
    /\ UNCHANGED <<input, output>>
    /\ IF ~exists(blog_post_id)
       THEN /\ last' = Called("delete", blog_post_id, not_found)
            /\ UNCHANGED <<blog_post_models, summary_models, rights_models>>
       ELSE /\ blog_post_models' = delete(blog_post_models, blog_post_id)
            /\ summary_models' = delete(summary_models, blog_post_id)
            /\ rights_models' = delete(rights_models, blog_post_id)
            /\ last' = Called("delete", blog_post_id, OK)

Create == \E author_id \in UserIds : create_new_blog_post(author_id)
Update == \E blog_post_id \in BlogPostIds, change_dict \in ChangeDicts : update_blog_post(blog_post_id, change_dict)
Publish == \E blog_post_id \in BlogPostIds, now \in Times : publish_blog_post(blog_post_id, now)
Unpublish == \E blog_post_id \in BlogPostIds : unpublish_blog_post(blog_post_id)
Delete == \E blog_post_id \in BlogPostIds : delete_blog_post(blog_post_id)

Init ==
    /\ blog_post_models = <<>>
    /\ summary_models = <<>>
    /\ rights_models = <<>>
    /\ last = Called("none", NoId, OK)
    /\ input = NoCall
    /\ output = OK

Next == Create \/ Update \/ Publish \/ Unpublish \/ Delete

Spec == Init /\ [][Next]_vars

check_can_edit_blog_post(user_id, blog_post_rights) == is_editor(blog_post_rights, user_id)

----------------------------------------------------------------------------
(* Properties of the services *)

title_exists == "Blog Post with given title already exists"

\* C1: for every blog post id either all three records (post, summary,
\* rights) exist or none does, and a completed delete_blog_post(id) leaves
\* none of the three records of id.
C1_TripleAllOrNothing ==
    /\ DOMAIN blog_post_models = DOMAIN summary_models
    /\ DOMAIN blog_post_models = DOMAIN rights_models
    /\ (last.op = "delete" /\ last.err = OK) =>
           /\ last.id \notin DOMAIN blog_post_models
           /\ last.id \notin DOMAIN summary_models
           /\ last.id \notin DOMAIN rights_models

\* A delete has completed while the other post's triple is still stored.
C1_Witness ==
    /\ last.op = "delete"
    /\ last.err = OK
    /\ \E i \in BlogPostIds \ {last.id} :
           i \in DOMAIN blog_post_models \cap DOMAIN summary_models \cap DOMAIN rights_models

\* C2: for every existing post, the summary's published_on is non-null
\* exactly when the rights record's blog_post_is_published flag is true.
C2_PublishedOnIffPublished ==
    \A i \in DOMAIN summary_models \cap DOMAIN rights_models :
        (summary_models[i].published_on # NullTime) <=> rights_models[i].blog_post_is_published

\* A post that went through publish and a later unpublish, beside a published one.
C2_Witness ==
    /\ last.op = "unpublish"
    /\ last.err = OK
    /\ ~rights_models[last.id].blog_post_is_published
    /\ summary_models[last.id].published_on = NullTime
    /\ \E i \in DOMAIN rights_models :
           rights_models[i].blog_post_is_published /\ summary_models[i].published_on # NullTime

\* C3: for every post id the summary's title equals the post's title, and the
\* summary's thumbnail, URL fragment and excerpt are those of the post.
C3_SummaryMirrorsPost ==
    \A i \in DOMAIN blog_post_models \cap DOMAIN summary_models :
        /\ summary_models[i].title = blog_post_models[i].title
        /\ summary_models[i].thumbnail_filename = blog_post_models[i].thumbnail_filename
        /\ summary_models[i].url_fragment = blog_post_models[i].url_fragment
        /\ summary_models[i].summary = generate_summary_of_blog_post(blog_post_models[i].content)

\* An update has given a post a title whose URL fragment differs from it.
C3_Witness ==
    /\ last.op = "update"
    /\ last.err = OK
    /\ blog_post_models[last.id].title = <<"A">>
    /\ summary_models[last.id].title = <<"A">>
    /\ summary_models[last.id].summary = "Hello..."

\* C4: a publish_blog_post on a stored post with an empty title, no tags or
\* empty content ends in an error and changes none of the three stores.
C4_InvalidPublishChangesNothing ==
    [][ \A i \in DOMAIN blog_post_models :
          ( /\ last'.op = "publish"
            /\ last'.id = i
            /\ \/ blog_post_models[i].title = <<>>
               \/ blog_post_models[i].tags = <<>>
               \/ blog_post_models[i].content = "" )
          => /\ last'.err # OK
             /\ blog_post_models' = blog_post_models
             /\ summary_models' = summary_models
             /\ rights_models' = rights_models ]_vars

\* A publish was refused for empty content and the post is still unpublished.
C4_Witness ==
    /\ last.op = "publish"
    /\ last.err = "Content can not be empty"
    /\ ~rights_models[last.id].blog_post_is_published
    /\ blog_post_models[last.id].published_on = NullTime
    /\ summary_models[last.id].published_on = NullTime

C6_PublishStampsAll ==
    [][ \A i \in DOMAIN blog_post_models :
          ( /\ last'.op = "publish"
            /\ last'.id = i
            /\ validate(blog_post_models[i], TRUE) = OK )
          => /\ last'.err = OK
             /\ rights_models'[i].blog_post_is_published
             /\ blog_post_models'[i].published_on # NullTime
             /\ summary_models'[i].published_on = blog_post_models'[i].published_on ]_vars

\* A publish has succeeded.
C6_Witness ==
    /\ last.op = "publish"
    /\ last.err = OK
    /\ rights_models[last.id].blog_post_is_published
    /\ blog_post_models[last.id].published_on \in Times
    /\ summary_models[last.id].published_on = blog_post_models[last.id].published_on

\* C7: right after create_new_blog_post(author) the rights record is
\* unpublished, the author is an editor and can edit, and no other user
\* (nor the unset user) is.
C7_CreatedRights ==
    last.op = "create" =>
        LET blog_post_rights == rights_models[last.id]
            author_id == blog_post_models[last.id].author_id
        IN  /\ ~blog_post_rights.blog_post_is_published
            /\ is_editor(blog_post_rights, author_id)
            /\ check_can_edit_blog_post(author_id, blog_post_rights)
            /\ \A u \in (UserIds \cup {NoUser}) \ {author_id} :
                   /\ ~is_editor(blog_post_rights, u)
                   /\ ~check_can_edit_blog_post(u, blog_post_rights)

\* A post was just created by uid_a while uid_b's post exists.
C7_Witness ==
    /\ last.op = "create"
    /\ blog_post_models[last.id].author_id = "uid_a"
    /\ rights_models[last.id].editor_ids = <<"uid_a">>
    /\ \E i \in DOMAIN blog_post_models : blog_post_models[i].author_id = "uid_b"

----------------------------------------------------------------------------
(* The field-level checks applied to drawn inputs *)

MaxTagLen == 4
MaxTags == 2

pending == "pending"

TagChars == {"a", " ", "A", "\n"}
TitleChars == {"a", "A", " ", "1"}

AllTags == SeqsUpTo(TagChars, MaxTagLen) \cup {None}
CommonTags == {<<"a">>, <<"b">>}

\* Tag lists: every list of common tags, and every such list with one
\* arbitrary tag put in at any position.
TagLists ==
    SeqsUpTo(CommonTags, MaxTags)
    \cup UNION {{SubSeq(l, 1, k) \o <<t>> \o SubSeq(l, k + 1, Len(l)) : k \in 0..Len(l), t \in AllTags} :
                l \in SeqsUpTo(CommonTags, MaxTags - 1)}
    \cup {NotAList}

AllTitles == SeqsUpTo(TitleChars, MAX_CHARS_IN_BLOG_POST_TITLE + 1) \cup {None}

InitStoreEmpty ==
    /\ blog_post_models = <<>>
    /\ summary_models = <<>>
    /\ rights_models = <<>>
    /\ last = Called("none", NoId, OK)

InitTags ==
    /\ InitStoreEmpty
    /\ input \in {[fn |-> "require_valid_tags", tags |-> t, strict |-> b] : t \in TagLists, b \in BOOLEAN}
    /\ output = pending

CallRequireValidTags ==
    /\ output = pending
    /\ output' = require_valid_tags(input.tags, input.strict)
    /\ UNCHANGED <<store, input>>

SpecTags == InitTags /\ [][CallRequireValidTags]_vars

InitTitle ==
    /\ InitStoreEmpty
    /\ input \in {[fn |-> "require_valid_title", title |-> t, strict |-> b] : t \in AllTitles, b \in BOOLEAN}
    /\ output = pending

CallRequireValidTitle ==
    /\ output = pending
    /\ output' = require_valid_title(input.title, input.strict)
    /\ UNCHANGED <<store, input>>

SpecTitle == InitTitle /\ [][CallRequireValidTitle]_vars

ValidateIds == {"blogpostid_a", "short"}
ValidateTitles == {<<>>, <<"a">>, <<"a", "1">>, <<"a", "a", "a", "a">>}
ValidateTags == {<<>>, << <<"a">> >>, << <<"a">>, <<"a">> >>, << <<"A">> >>}
ValidateThumbnails == {NoThumbnail, "thummbnail.svg", "", "thumbnail.exe"}
ValidateContents == {"", "<p>Hello</p>", NoContent}
ValidateUrlFragments == {<<>>, <<"a">>, <<"A">>, <<"a", "-", "b">>}

ValidatePosts ==
    {[BlogPost(i, "uid_a", t, "", u, g, f, NullTime, NullTime) EXCEPT !.content = c] :
        i \in ValidateIds, t \in ValidateTitles, u \in ValidateUrlFragments,
        g \in ValidateTags, f \in ValidateThumbnails, c \in ValidateContents}

InitValidate ==
    /\ InitStoreEmpty
    /\ input \in {[fn |-> "validate", self |-> p, strict |-> b] : p \in ValidatePosts, b \in BOOLEAN}
    /\ output = pending

CallValidate ==
    /\ output = pending
    /\ output' = validate(input.self, input.strict)
    /\ UNCHANGED <<store, input>>

SpecValidate == InitValidate /\ [][CallValidate]_vars

----------------------------------------------------------------------------
(* Properties of the field-level checks *)

\* Full match of ^[a-z]+( [a-z]+)*$ from position i on; in_word says that the
\* character before i is a letter.
RECURSIVE matches_lowercase_words(_, _, _)
matches_lowercase_words(s, i, in_word) ==
    IF i > Len(s) THEN in_word
    ELSE IF s[i] \in ascii_lowercase THEN matches_lowercase_words(s, i + 1, TRUE)
    ELSE IF s[i] = " " /\ in_word THEN matches_lowercase_words(s, i + 1, FALSE)
    ELSE FALSE

\* C8: require_valid_tags succeeds on a list of tags exactly when every tag
\* fully matches ^[a-z]+( [a-z]+)*$, no tag occurs twice, and, in strict mode,
\* the list is not empty.
C8_TagsValidIff ==
    (output # pending /\ input.fn = "require_valid_tags" /\ isinstance_list(input.tags)) =>
        ( output = OK <=>
            /\ \A k \in 1..Len(input.tags) : matches_lowercase_words(input.tags[k], 1, FALSE)
            /\ \A j, k \in 1..Len(input.tags) : j # k => input.tags[j] # input.tags[k]
            /\ input.strict => Len(input.tags) > 0 )

\* A strict check has accepted two distinct tags, one of them of two words.
C8_Witness ==
    /\ input.fn = "require_valid_tags"
    /\ input.strict
    /\ input.tags = << <<"a", " ", "a">>, <<"a">> >>
    /\ output = OK

\* C9: require_valid_title succeeds on a string exactly when it has at most
\* MAX_CHARS_IN_BLOG_POST_TITLE characters and, in strict mode, is non-empty
\* and matches the title pattern.
C9_TitleValidIff ==
    (output # pending /\ input.fn = "require_valid_title" /\ isinstance_str(input.title)) =>
        ( output = OK <=>
            /\ Len(input.title) <= MAX_CHARS_IN_BLOG_POST_TITLE
            /\ input.strict =>
                   /\ input.title # <<>>
                   /\ match_VALID_BLOG_POST_TITLE_REGEX(input.title) )

\* A strict check has accepted a title of exactly the maximum length.
C9_Witness ==
    /\ input.fn = "require_valid_title"
    /\ input.strict
    /\ Len(input.title) = MAX_CHARS_IN_BLOG_POST_TITLE
    /\ output = OK

\* The fields outside title, content, tags and URL fragment are in order, and
\* title and tags are in order unless empty.
only_defects_among_the_four(p) ==
    /\ require_valid_blog_post_id(p.id) = OK
    /\ p.title = <<>> \/ require_valid_title(p.title, TRUE) = OK
    /\ p.tags = <<>> \/ require_valid_tags(p.tags, TRUE) = OK
    /\ require_valid_thumbnail_filename(p.thumbnail_filename, TRUE) = OK
    /\ p.content # NoContent

\* C10: validate(strict=True) rejects every post with an empty title, empty
\* content, an empty tag list or an ill-formed URL fragment, and
\* validate(strict=False) accepts a post that has no other defect.
C10_StrictRejectsRelaxedAccepts ==
    (output # pending /\ input.fn = "validate") =>
        /\ ( /\ input.strict
             /\ \/ input.self.title = <<>>
                \/ input.self.content = ""
                \/ input.self.tags = <<>>
                \/ require_valid_url_fragment(input.self.url_fragment) # OK )
           => output # OK
        /\ (~input.strict /\ only_defects_among_the_four(input.self)) => output = OK

\* A relaxed validation has accepted a post with all four defects.
C10_Witness ==
    /\ input.fn = "validate"
    /\ ~input.strict
    /\ input.self.title = <<>>
    /\ input.self.content = ""
    /\ input.self.tags = <<>>
    /\ input.self.url_fragment = <<"A">>
    /\ output = OK

----------------------------------------------------------------------------
(* The BlogPost mutators applied, one after the other, to one object *)

MutatorTitles == TitleInputs \cup {None}
MutatorUrlFragments == {<<"a">>, <<"a", "-", "b">>, <<"A">>, <<>>}
MutatorThumbnails == {"thummbnail.svg", "image.svg", "", "thumbnail.exe"}
MutatorContents == {"<p>Hello</p>", "", "<p>Hello</p><script>"}
MutatorTags == TagsInputs \cup {NotAList}

MutatorPosts ==
    {BlogPost("blogpostid_a", "uid_a", <<>>, c, <<>>, <<>>, f, NullTime, NullTime) :
        c \in {"", "<p>Hello</p>"}, f \in {NoThumbnail, "thummbnail.svg", ""}}

Mutators == {"update_title", "update_url_fragment", "update_thumbnail_filename", "update_content", "update_tags"}

\* input.self is the object before the call, output.obj the object after it.
InitMutators ==
    /\ InitStoreEmpty
    /\ input \in {[fn |-> "__init__", self |-> p, arg |-> None] : p \in MutatorPosts}
    /\ output = Result(OK, input.self)

CallUpdateTitle ==
    \E new_title \in MutatorTitles :
        /\ input' = [fn |-> "update_title", self |-> output.obj, arg |-> new_title]
        /\ output' = update_title(output.obj, new_title)
        /\ UNCHANGED store

CallUpdateUrlFragment ==
    \E new_url_fragment \in MutatorUrlFragments :
        /\ input' = [fn |-> "update_url_fragment", self |-> output.obj, arg |-> new_url_fragment]
        /\ output' = update_url_fragment(output.obj, new_url_fragment)
        /\ UNCHANGED store

CallUpdateThumbnailFilename ==
    \E new_thumbnail_filename \in MutatorThumbnails :
        /\ input' = [fn |-> "update_thumbnail_filename", self |-> output.obj, arg |-> new_thumbnail_filename]
        /\ output' = update_thumbnail_filename(output.obj, new_thumbnail_filename)
        /\ UNCHANGED store

CallUpdateContent ==
    \E content \in MutatorContents :
        /\ input' = [fn |-> "update_content", self |-> output.obj, arg |-> content]
        /\ output' = update_content(output.obj, content)
        /\ UNCHANGED store

CallUpdateTags ==
    \E tags \in MutatorTags :
        /\ input' = [fn |-> "update_tags", self |-> output.obj, arg |-> tags]
        /\ output' = update_tags(output.obj, tags)
        /\ UNCHANGED store

\* validate reads the fields and assigns none.
CallValidateOnPost ==
    \E strict \in BOOLEAN :
        /\ input' = [fn |-> "validate", self |-> output.obj, arg |-> strict]
        /\ output' = Result(validate(output.obj, strict), output.obj)
        /\ UNCHANGED store

NextMutators ==
    \/ CallUpdateTitle
    \/ CallUpdateUrlFragment
    \/ CallUpdateThumbnailFilename
    \/ CallUpdateContent
    \/ CallUpdateTags
    \/ CallValidateOnPost

SpecMutators == InitMutators /\ [][NextMutators]_vars

\* C11: whenever update_title, update_tags, update_content,
\* update_thumbnail_filename or update_url_fragment returns normally, the value
\* now stored in the touched field passes the strict check of that field.
C11_StoredValuePassesStrictCheck ==
    (input.fn \in Mutators /\ output.err = OK) =>
        /\ input.fn = "update_title" => require_valid_title(output.obj.title, TRUE) = OK
        /\ input.fn = "update_tags" => require_valid_tags(output.obj.tags, TRUE) = OK
        /\ input.fn = "update_url_fragment" => require_valid_url_fragment(output.obj.url_fragment) = OK
        /\ input.fn = "update_thumbnail_filename" =>
               require_valid_thumbnail_filename(output.obj.thumbnail_filename, TRUE) = OK
        /\ input.fn = "update_content" => (output.obj.content # NoContent /\ output.obj.content # "")

\* C12: whenever an update_* method raises, every field of the post has the
\* value it had before the call.
C12_FailedUpdateChangesNothing ==
    (input.fn \in Mutators /\ output.err # OK) => output.obj = input.self

\* An update of the tags was refused on a post whose title had been set.
C12_Witness ==
    /\ input.fn = "update_tags"
    /\ input.arg = << <<"a">>, <<"a">> >>
    /\ output.err = "Some tags duplicate each other"
    /\ input.self.title = <<"a">>
    /\ output.obj = input.self

----------------------------------------------------------------------------
(* Transport form of BlogPost and BlogPostSummary *)

\* user_services: the two users known to the identity service.
get_username(user_id) ==
    CASE user_id = "uid_a" -> "A"
      [] user_id = "uid_b" -> "B"
      [] OTHER -> NoUser

get_user_id_from_username(username) ==
    CASE username = "A" -> "uid_a"
      [] username = "B" -> "uid_b"
      [] OTHER -> NoUser

\* utils: a timestamp and its canonical string.
convert_naive_datetime_to_string(datetime_obj) == [strftime |-> datetime_obj]
convert_string_to_naive_datetime_object(date_time_string) == date_time_string.strftime

\* json.dumps(...).encode('utf-8') and json.loads(....decode('utf-8'))
json_dumps(dict) == [utf8 |-> dict]
json_loads(json_string) == json_string.utf8

to_dict(self) ==
    [ id |-> self.id,
      author_name |-> get_user_id_from_username(self.author_id),
      title |-> self.title,
      content |-> self.content,
      thumbnail_filename |-> self.thumbnail_filename,
      tags |-> self.tags,
      url_fragment |-> self.url_fragment ]

\* Mutant: the timestamp keys are written whether or not the timestamp is set.
serialize_every_key(self) ==
    json_dumps(to_dict(self)
        @@ ("last_updated" :> convert_naive_datetime_to_string(self.last_updated))
        @@ ("published_on" :> convert_naive_datetime_to_string(self.published_on)))

serialize(self) ==
    LET blog_post_dict == to_dict(self)
        with_last_updated ==
            IF self.last_updated # NullTime
            THEN blog_post_dict @@ ("last_updated" :> convert_naive_datetime_to_string(self.last_updated))
            ELSE blog_post_dict
        with_published_on ==
            IF self.published_on # NullTime
            THEN with_last_updated @@ ("published_on" :> convert_naive_datetime_to_string(self.published_on))
            ELSE with_last_updated
    IN  json_dumps(with_published_on)

from_dict(blog_post_dict, blog_post_published_on, blog_post_last_updated) ==
    LET author_id == get_user_id_from_username(blog_post_dict.author_name)
    IN  BlogPost(blog_post_dict.id, author_id, blog_post_dict.title, blog_post_dict.content, blog_post_dict.url_fragment, blog_post_dict.tags, blog_post_dict.thumbnail_filename, blog_post_last_updated, blog_post_published_on)

deserialize(json_string) ==
    LET blog_post_dict == json_loads(json_string)
        published_on ==
            IF "published_on" \in DOMAIN blog_post_dict
            THEN convert_string_to_naive_datetime_object(blog_post_dict.published_on)
            ELSE NullTime
        last_updated ==
            IF "last_updated" \in DOMAIN blog_post_dict
            THEN convert_string_to_naive_datetime_object(blog_post_dict.last_updated)
            ELSE NullTime
    IN  from_dict(blog_post_dict, published_on, last_updated)

BlogPostSummary_to_dict(self) ==
    [ id |-> self.id,
      author_name |-> get_username(self.author_id),
      title |-> self.title,
      summary |-> self.summary,
      thumbnail_filename |-> self.thumbnail_filename,
      tags |-> self.tags,
      url_fragment |-> self.url_fragment ]

BlogPostSummary_serialize(self) ==
    LET blog_post_summary_dict == BlogPostSummary_to_dict(self)
        with_last_updated ==
            IF self.last_updated # NullTime
            THEN blog_post_summary_dict @@ ("last_updated" :> convert_naive_datetime_to_string(self.last_updated))
            ELSE blog_post_summary_dict
        with_published_on ==
            IF self.published_on # NullTime
            THEN with_last_updated @@ ("published_on" :> convert_naive_datetime_to_string(self.published_on))
            ELSE with_last_updated
    IN  json_dumps(with_published_on)

SerializeTimes == {NullTime} \cup Times

SerializePosts ==
    {BlogPost(i, a, t, c, u, g, f, l, p) :
        i \in BlogPostIds, a \in UserIds, t \in {<<>>, <<"a">>}, c \in {"", "<p>Hello</p>"},
        u \in {<<>>, <<"a">>}, g \in {<<>>, << <<"a">> >>}, f \in {NoThumbnail, "thummbnail.svg"},
        l \in SerializeTimes, p \in SerializeTimes}

SerializeSummaries ==
    {BlogPostSummary(i, a, <<"a">>, "<p>Hello</p>", <<"a">>, << <<"a">> >>, "thummbnail.svg", l, p) :
        i \in BlogPostIds, a \in UserIds, l \in SerializeTimes, p \in SerializeTimes}

InitSerialize ==
    /\ InitStoreEmpty
    /\ input \in {[fn |-> "BlogPost.serialize", self |-> p] : p \in SerializePosts}
                 \cup {[fn |-> "BlogPostSummary.serialize", self |-> s] : s \in SerializeSummaries}
    /\ output = [stage |-> "pending"]

CallSerialize ==
    /\ input.fn = "BlogPost.serialize"
    /\ output.stage = "pending"
    /\ output' = [stage |-> "serialized", json_string |-> serialize(input.self)]
    /\ UNCHANGED <<store, input>>

CallDeserialize ==
    /\ input.fn = "BlogPost.serialize"
    /\ output.stage = "serialized"
    /\ output' = [stage |-> "deserialized", json_string |-> output.json_string,
                  blog_post |-> deserialize(output.json_string)]
    /\ UNCHANGED <<store, input>>

CallSummarySerialize ==
    /\ input.fn = "BlogPostSummary.serialize"
    /\ output.stage = "pending"
    /\ output' = [stage |-> "serialized", json_string |-> BlogPostSummary_serialize(input.self)]
    /\ UNCHANGED <<store, input>>

NextSerialize ==
    \/ CallSerialize
    \/ CallDeserialize
    \/ CallSummarySerialize

SpecSerialize == InitSerialize /\ [][NextSerialize]_vars

\* C13: for every valid BlogPost p, deserialize(p.serialize()) equals p field
\* for field: id, author_id, title, content, thumbnail_filename, url_fragment,
\* tags, last_updated and published_on.
C13_RoundTrip ==
    (output.stage = "deserialized" /\ validate(input.self, FALSE) = OK) =>
        output.blog_post = input.self

\* C14: the serialized form of a post or of a summary has the key last_updated
\* (published_on) exactly when that timestamp is set, and deserialize gives a
\* null timestamp for an absent key and the parsed timestamp for a present one.
C14_TimestampKeyIffSet ==
    output.stage # "pending" =>
        LET dict == json_loads(output.json_string)
        IN  /\ "last_updated" \in DOMAIN dict <=> input.self.last_updated # NullTime
            /\ "published_on" \in DOMAIN dict <=> input.self.published_on # NullTime
            /\ output.stage = "deserialized" =>
                /\ output.blog_post.last_updated =
                       IF "last_updated" \in DOMAIN dict
                       THEN convert_string_to_naive_datetime_object(dict.last_updated)
                       ELSE NullTime
                /\ output.blog_post.published_on =
                       IF "published_on" \in DOMAIN dict
                       THEN convert_string_to_naive_datetime_object(dict.published_on)
                       ELSE NullTime
                /\ output.blog_post.last_updated = input.self.last_updated
                /\ output.blog_post.published_on = input.self.published_on

\* A post updated at time 2 and never published went through serialize and
\* deserialize.
C14_Witness ==
    /\ output.stage = "deserialized"
    /\ input.self.last_updated = 2
    /\ input.self.published_on = NullTime
    /\ DOMAIN json_loads(output.json_string) = DOMAIN to_dict(input.self) \cup {"last_updated"}
    /\ output.blog_post.last_updated = 2
    /\ output.blog_post.published_on = NullTime

----------------------------------------------------------------------------
(* BlogPostRights.is_editor *)

MaxEditors == 2

RightsObjects ==
    {BlogPostRights(i, e, b) : i \in BlogPostIds, e \in SeqsUpTo(UserIds, MaxEditors), b \in BOOLEAN}

InitRights ==
    /\ InitStoreEmpty
    /\ input \in {[fn |-> "is_editor", self |-> r, user_id |-> u] :
                     r \in RightsObjects, u \in UserIds \cup {NoUser}}
    /\ output = [stage |-> "pending"]

CallIsEditor ==
    /\ output.stage = "pending"
    /\ output' = [stage |-> "returned", value |-> is_editor(input.self, input.user_id)]
    /\ UNCHANGED <<store, input>>

SpecRights == InitRights /\ [][CallIsEditor]_vars

\* C15: is_editor(user) is true exactly when the user is one of the editors
\* of the rights object, and false for an unset user whoever the editors are.
C15_IsEditorIffMember ==
    output.stage = "returned" =>
        /\ output.value <=> (\E i \in 1..Len(input.self.editor_ids) : input.self.editor_ids[i] = input.user_id)
        /\ input.user_id = NoUser => ~output.value

\* is_editor was asked about no user on a rights object that has two editors.
C15_Witness ==
    /\ output.stage = "returned"
    /\ input.user_id = NoUser
    /\ Len(input.self.editor_ids) = 2
    /\ ~output.value

----------------------------------------------------------------------------
(* BlogPostSummary validation *)

BlogPostSummary_require_valid_thumbnail_filename(thumbnail_filename, strict) ==
    IF strict /\ thumbnail_filename = NoThumbnail
    THEN "Expected thumbnail filename to be a string"
    ELSE IF thumbnail_filename = ""
    THEN "Thumbnail filename should not be empty"
    ELSE utils_require_valid_thumbnail_filename(thumbnail_filename)

BlogPostSummary_require_valid_blog_post_id(blog_post_id) ==
    IF blog_post_id = NoId
    THEN "Blog Post ID should be a string"
    ELSE IF Len(blog_post_id) # 12
    THEN "Invalid Blog Post ID."
    ELSE OK

BlogPostSummary_require_valid_url_fragment(url_fragment) ==
    utils_require_valid_url_fragment(
        url_fragment, "Blog Post URL Fragment", MAX_CHARS_IN_BLOG_POST_URL_FRAGMENT)

BlogPostSummary_require_valid_title(title, strict) ==
    IF ~isinstance_str(title)
    THEN "Title should be a string."
    ELSE IF Len(title) > MAX_CHARS_IN_BLOG_POST_TITLE
    THEN "blog post title should at most have %d chars"
    ELSE IF strict /\ title = <<>>
    THEN "Title should not be empty"
    ELSE OK

BlogPostSummary_require_valid_tags(tags, strict) ==
    IF ~isinstance_list(tags)
    THEN "Expected 'tags' to be a list"
    ELSE IF first_tag_error(tags) # OK
    THEN first_tag_error(tags)
    ELSE IF strict /\ Len(tags) = 0
    THEN "Atleast one tag should be selected"
    ELSE IF Cardinality(Range(tags)) # Len(tags)
    THEN "Some tags duplicate each other"
    ELSE OK

BlogPostSummary_validate(self, strict) ==
    IF BlogPostSummary_require_valid_blog_post_id(self.id) # OK
    THEN BlogPostSummary_require_valid_blog_post_id(self.id)
    ELSE IF BlogPostSummary_require_valid_title(self.title, strict) # OK
    THEN BlogPostSummary_require_valid_title(self.title, strict)
    ELSE IF BlogPostSummary_require_valid_tags(self.tags, strict) # OK
    THEN BlogPostSummary_require_valid_tags(self.tags, strict)
    ELSE IF BlogPostSummary_require_valid_thumbnail_filename(self.thumbnail_filename, strict) # OK
    THEN BlogPostSummary_require_valid_thumbnail_filename(self.thumbnail_filename, strict)
    ELSE IF self.summary = NoContent
    THEN "Expected summary to be a string"
    ELSE IF strict /\ BlogPostSummary_require_valid_url_fragment(self.url_fragment) # OK
    THEN BlogPostSummary_require_valid_url_fragment(self.url_fragment)
    ELSE IF strict /\ self.summary = ""
    THEN "Summary can not be empty"
    ELSE OK

ValidateSummaries ==
    {BlogPostSummary("blogpostid_a", "uid_a", t, c, u, g, f, NullTime, NullTime) :
        t \in ValidateTitles \cup {None}, u \in ValidateUrlFragments,
        g \in ValidateTags \cup {NotAList}, f \in ValidateThumbnails, c \in ValidateContents}

InitSummaryValidate ==
    /\ InitStoreEmpty
    /\ input \in {[fn |-> "BlogPostSummary.validate", self |-> s, strict |-> b] :
                     s \in ValidateSummaries, b \in BOOLEAN}
    /\ output = [stage |-> "pending"]

\* The four field checks of the summary, each called on its own, and validate.
CallSummaryValidate ==
    /\ output.stage = "pending"
    /\ output' =
           [ stage |-> "returned",
             title |-> BlogPostSummary_require_valid_title(input.self.title, input.strict),
             tags |-> BlogPostSummary_require_valid_tags(input.self.tags, input.strict),
             thumbnail_filename |->
                 BlogPostSummary_require_valid_thumbnail_filename(input.self.thumbnail_filename, input.strict),
             url_fragment |-> BlogPostSummary_require_valid_url_fragment(input.self.url_fragment),
             validate |-> BlogPostSummary_validate(input.self, input.strict) ]
    /\ UNCHANGED <<store, input>>

SpecSummaryValidate == InitSummaryValidate /\ [][CallSummaryValidate]_vars

\* C16: in strict and in relaxed mode BlogPostSummary accepts a title, a tag
\* list, a thumbnail filename and a URL fragment exactly when BlogPost accepts
\* it, and a summary that validates has a string as its summary text, which
\* is not empty in strict mode.
C16_SummaryMirrorsPostValidation ==
    output.stage = "returned" =>
        /\ output.title = OK <=> require_valid_title(input.self.title, input.strict) = OK
        /\ output.tags = OK <=> require_valid_tags(input.self.tags, input.strict) = OK
        /\ output.thumbnail_filename = OK <=>
               require_valid_thumbnail_filename(input.self.thumbnail_filename, input.strict) = OK
        /\ output.url_fragment = OK <=> require_valid_url_fragment(input.self.url_fragment) = OK
        /\ output.validate = OK =>
               (input.self.summary # NoContent /\ (input.strict => input.self.summary # ""))

----------------------------------------------------------------------------
(* Batch audit of the stored blog records *)

AuditIds == {"blogpostid_a", "blogpostid_b", "blogpostid_c"}

\* utils.quoted: the JSON string literal of a text without special characters.
quoted(s) == <<"\"">> \o s \o <<"\"">>

\* base_validation_errors.BaseAuditError: a finding about one stored model.
BaseAuditError(cls, message, model) ==
    [raised |-> OK, cls |-> cls, message |-> message, model_id |-> model.id]

\* Mutant: the title is put in the message as it is.
DuplicateBlogTitleError_unquoted(model) ==
    BaseAuditError("DuplicateBlogTitleError", <<"title=", model.title, " is not unique">>, model)

DuplicateBlogTitleError(model) ==
    BaseAuditError("DuplicateBlogTitleError", <<"title=", quoted(model.title), " is not unique">>, model)

\* The message is built from the title, and super(DuplicateBlogTitleError, self)
\* is then asked for on an object that is no DuplicateBlogTitleError: TypeError.
\* The message field is the local variable at the time of the raise.
DuplicateBlogUrlError(model) ==
    [raised |-> "TypeError", cls |-> "DuplicateBlogUrlError",
     message |-> <<"url=", quoted(model.title), " is not unique">>, model_id |-> model.id]

\* Outcome of a validator run: the findings yielded and the exception raised.
Yielded(findings, raised) == [yielded |-> findings, raised |-> raised]

\* job_utils.clone_model: a copy of the stored model.
clone_model(model) == model

\* BlogPostSummaryModel.get_by_id gives None for an id without summary, and
\* None has no title; the names blog_validation_errors and model on the yield
\* line are bound nowhere in the module.
ValidateTitleMatchesSummaryModelTitle_process(input_model) ==
    LET item == clone_model(input_model)
    IN  IF item.title # <<>>
        THEN IF item.id \notin DOMAIN summary_models
             THEN Yielded({}, "AttributeError")
             ELSE IF summary_models[item.id].title # item.title
             THEN Yielded({}, "NameError")
             ELSE Yielded({}, OK)
        ELSE Yielded({}, OK)

\* Title uniqueness: the groups of posts that share a title that is set.
duplicate_title_groups(models) ==
    {g \in {{i \in DOMAIN models : models[i].title = models[j].title} :
                j \in {k \in DOMAIN models : models[k].title # <<>>}} : Cardinality(g) > 1}

\* Mutant: posts without a title form a group like any other.
title_uniqueness_findings_with_empty_titles(models, canonical) ==
    {DuplicateBlogTitleError(models[i]) :
        i \in {j \in DOMAIN models : \E k \in DOMAIN models \ {j} : models[k].title = models[j].title} \ canonical}

\* Every member of a group except the canonical one of the group is reported.
title_uniqueness_findings(models, canonical) ==
    {DuplicateBlogTitleError(models[i]) : i \in (UNION duplicate_title_groups(models)) \ canonical}

\* The choices of one canonical member per group.
Canonicals(models) ==
    {c \in SUBSET (UNION duplicate_title_groups(models)) :
        \A g \in duplicate_title_groups(models) : Cardinality(c \cap g) = 1}

\* Outcome of a call: the value returned and the exception raised.
Returned(value, raised) == [returned |-> value, raised |-> raised]

NoValue == "<None>"

\* The first name the body looks up, blog_services, is imported nowhere in the
\* module (nor are item and VALIDATION_MODES bound): NameError for every item.
_get_domain_object_validation_type(unused_item) == Returned(NoValue, "NameError")

\* One declaration of a relationship: the value of a property of the model is
\* the id of a model of each of the kinds listed.
Relationship(property, value, model_kinds) ==
    [property |-> property, value |-> value, model_kinds |-> model_kinds]

\* In each of the three functions the third yield names user_models, which the
\* module does not import: the two declarations before it are yielded, then
\* NameError.
blog_post_model_relationships(model) ==
    Yielded({Relationship("id", model.id, {"BlogPostSummaryModel"}),
             Relationship("id", model.id, {"BlogPostRightsModel"})}, "NameError")

blog_post_summary_model_relationships(model) ==
    Yielded({Relationship("id", model.id, {"BlogPostModel"}),
             Relationship("id", model.id, {"BlogPostRightsModel"})}, "NameError")

blog_post_rights_model_relationships(model) ==
    Yielded({Relationship("id", model.id, {"BlogPostModel"}),
             Relationship("id", model.id, {"BlogPostSummaryModel"})}, "NameError")

ModelKinds == {"BlogPostModel", "BlogPostSummaryModel", "BlogPostRightsModel"}

AuditTitles == {<<>>, <<"a">>, <<"b">>}
AuditPosts(i) ==
    {BlogPost(i, "uid_a", t, "", u, <<>>, NoThumbnail, NullTime, NullTime) :
        t \in AuditTitles, u \in {<<"a">>, <<"b">>}}
AuditSummaries(i) ==
    {BlogPostSummary(i, "uid_a", t, "...", <<"a">>, <<>>, NoThumbnail, NullTime, NullTime) : t \in AuditTitles}
AuditRights(i) == {BlogPostRights(i, <<"uid_a">>, b) : b \in BOOLEAN}

\* A stored dataset: the three posts, the summaries and the rights of some of them.
InitAudit ==
    /\ blog_post_models \in {f \in [AuditIds -> UNION {AuditPosts(i) : i \in AuditIds}] :
                                \A i \in AuditIds : f[i].id = i /\ (f[i].title = <<>> => f[i].url_fragment = <<"a">>)}
    /\ \E present \in (SUBSET AuditIds) \ {{}} :
           summary_models \in {f \in [present -> UNION {AuditSummaries(i) : i \in AuditIds}] :
                                   \A i \in present : f[i].id = i /\ (i = "blogpostid_c" => f[i].title = blog_post_models[i].title)}
    /\ \E present \in {AuditIds, AuditIds \ {"blogpostid_a"}} :
           rights_models \in {f \in [present -> UNION {AuditRights(i) : i \in AuditIds}] :
                                  \A i \in present : f[i].id = i /\ (i # "blogpostid_a" => ~f[i].blog_post_is_published)}
    /\ last = Called("none", NoId, OK)
    /\ input = NoCall
    /\ output = Yielded({}, OK)

\* Mutant: the validator repairs the stale summary it finds.
RunTitleMatchesSummary_repairing_summary ==
    \E id \in DOMAIN blog_post_models :
        /\ input' = [fn |-> "ValidateTitleMatchesSummaryModelTitle.process", id |-> id]
        /\ output' = ValidateTitleMatchesSummaryModelTitle_process(blog_post_models[id])
        /\ summary_models' =
               IF id \in DOMAIN summary_models
               THEN [summary_models EXCEPT ![id].title = blog_post_models[id].title]
               ELSE summary_models
        /\ UNCHANGED <<blog_post_models, rights_models, last>>

RunTitleMatchesSummary ==
    \E id \in DOMAIN blog_post_models :
        /\ input' = [fn |-> "ValidateTitleMatchesSummaryModelTitle.process", id |-> id]
        /\ output' = ValidateTitleMatchesSummaryModelTitle_process(blog_post_models[id])
        /\ UNCHANGED store

RunTitleUniqueness ==
    \E canonical \in Canonicals(blog_post_models) :
        /\ input' = [fn |-> "title uniqueness", canonical |-> canonical]
        /\ output' = Yielded(title_uniqueness_findings(blog_post_models, canonical), OK)
        /\ UNCHANGED store

ConstructDuplicateBlogUrlError ==
    \E id \in DOMAIN blog_post_models :
        /\ input' = [fn |-> "DuplicateBlogUrlError", id |-> id]
        /\ output' = DuplicateBlogUrlError(blog_post_models[id])
        /\ UNCHANGED store

RunGetDomainObjectValidationType ==
    \E kind \in {"BlogPostModel", "BlogPostSummaryModel"} :
        \E id \in (IF kind = "BlogPostModel" THEN DOMAIN blog_post_models ELSE DOMAIN summary_models) :
            /\ input' = [fn |-> "_get_domain_object_validation_type", kind |-> kind, id |-> id]
            /\ output' = _get_domain_object_validation_type(
                             IF kind = "BlogPostModel" THEN blog_post_models[id] ELSE summary_models[id])
            /\ UNCHANGED store

RunRelationships ==
    \/ \E id \in DOMAIN blog_post_models :
           /\ input' = [fn |-> "relationships", kind |-> "BlogPostModel", id |-> id]
           /\ output' = blog_post_model_relationships(blog_post_models[id])
           /\ UNCHANGED store
    \/ \E id \in DOMAIN summary_models :
           /\ input' = [fn |-> "relationships", kind |-> "BlogPostSummaryModel", id |-> id]
           /\ output' = blog_post_summary_model_relationships(summary_models[id])
           /\ UNCHANGED store
    \/ \E id \in DOMAIN rights_models :
           /\ input' = [fn |-> "relationships", kind |-> "BlogPostRightsModel", id |-> id]
           /\ output' = blog_post_rights_model_relationships(rights_models[id])
           /\ UNCHANGED store

NextAudit ==
    \/ RunTitleMatchesSummary
    \/ RunTitleUniqueness
    \/ ConstructDuplicateBlogUrlError
    \/ RunGetDomainObjectValidationType
    \/ RunRelationships

SpecAudit == InitAudit /\ [][NextAudit]_vars

\* C17: for a post whose title is set, the title/summary consistency validator
\* yields exactly one error, about that post, when the title of the paired
\* summary differs from the title of the post; it yields nothing when the two
\* titles are equal or when the post has no title.
C17_OneErrorPerStaleSummary ==
    (input.fn = "ValidateTitleMatchesSummaryModelTitle.process" /\ input.id \in DOMAIN summary_models) =>
        /\ output.raised = OK
        /\ IF blog_post_models[input.id].title # <<>>
              /\ summary_models[input.id].title # blog_post_models[input.id].title
           THEN Cardinality(output.yielded) = 1 /\ \A e \in output.yielded : e.model_id = input.id
           ELSE output.yielded = {}

\* C18: for each group of posts that share a title that is set, the title
\* uniqueness validator yields one DuplicateBlogTitleError, with the message
\* 'title=<quoted title> is not unique', for every member of the group but one,
\* whichever member that is, and nothing for a post whose title no other has.
C18_OneErrorPerDuplicateButOne ==
    input.fn = "title uniqueness" =>
        /\ output.raised = OK
        /\ \A e \in output.yielded :
               /\ e.cls = "DuplicateBlogTitleError"
               /\ e.raised = OK
               /\ e.model_id \in DOMAIN blog_post_models
               /\ e.message = <<"title=", <<"\"">> \o blog_post_models[e.model_id].title \o <<"\"">>, " is not unique">>
        /\ \A t \in AuditTitles \ {<<>>} :
               LET group == {i \in DOMAIN blog_post_models : blog_post_models[i].title = t}
                   reported == {i \in group : \E e \in output.yielded : e.model_id = i}
               IN  /\ Cardinality(group) > 1 => Cardinality(reported) = Cardinality(group) - 1
                   /\ Cardinality(group) <= 1 => reported = {}
                   /\ Cardinality({e \in output.yielded : e.model_id \in group}) = Cardinality(reported)

\* The three posts have the title 'a'; the posts a and c were reported, b was not.
C18_Witness ==
    /\ input.fn = "title uniqueness"
    /\ \A i \in AuditIds : blog_post_models[i].title = <<"a">>
    /\ {e.model_id : e \in output.yielded} = {"blogpostid_a", "blogpostid_c"}
    /\ \A e \in output.yielded : e.message = <<"title=", <<"\"", "a", "\"">>, " is not unique">>

\* C19: the title uniqueness validator yields no error for a post without
\* title, however many unpublished posts without title the dataset holds.
C19_EmptyTitlesExempt ==
    input.fn = "title uniqueness" =>
        \A e \in output.yielded : blog_post_models[e.model_id].title # <<>>

\* The unpublished posts a and b have no title, and the validator ran over them
\* and yielded nothing.
C19_Witness ==
    /\ input.fn = "title uniqueness"
    /\ blog_post_models["blogpostid_a"].title = <<>>
    /\ blog_post_models["blogpostid_b"].title = <<>>
    /\ "blogpostid_a" \in DOMAIN rights_models
    /\ ~rights_models["blogpostid_a"].blog_post_is_published
    /\ ~rights_models["blogpostid_b"].blog_post_is_published
    /\ output.yielded = {}

\* C20: a DuplicateBlogUrlError can be constructed for any post, and its
\* message is 'url=<quoted URL fragment of the post> is not unique'.
C20_UrlErrorCarriesUrlFragment ==
    input.fn = "DuplicateBlogUrlError" =>
        /\ output.raised = OK
        /\ output.model_id = input.id
        /\ output.message = <<"url=", <<"\"">> \o blog_post_models[input.id].url_fragment \o <<"\"">>, " is not unique">>

\* C21: the validation mode selected for a stored post or summary is strict
\* exactly when the rights record of the same id is published, and relaxed
\* when it is not.
C21_StrictIffPublished ==
    (input.fn = "_get_domain_object_validation_type" /\ input.id \in DOMAIN rights_models) =>
        /\ output.raised = OK
        /\ output.returned = "strict" <=> rights_models[input.id].blog_post_is_published
        /\ output.returned = "non_strict" <=> ~rights_models[input.id].blog_post_is_published

\* C22: each of the three kinds of record declares that its own id is the id
\* of a record of each of the two other kinds, and declares a reference to
\* the user settings of its author.
C22_RelationshipsDeclared ==
    input.fn = "relationships" =>
        /\ output.raised = OK
        /\ \A k \in ModelKinds \ {input.kind} :
               \E r \in output.yielded : r.property = "id" /\ r.value = input.id /\ k \in r.model_kinds
        /\ \E r \in output.yielded : r.property # "id" /\ "UserSettingsModel" \in r.model_kinds

\* C23: a validator that processes a record whose paired record is missing (a
\* post with a title and no summary, a post or summary with no rights record)
\* reports a finding about it and does not raise.
C23_MissingPairIsAFinding ==
    /\ (/\ input.fn = "ValidateTitleMatchesSummaryModelTitle.process"
        /\ blog_post_models[input.id].title # <<>>
        /\ input.id \notin DOMAIN summary_models) =>
           (output.raised = OK /\ \E e \in output.yielded : e.model_id = input.id)
    /\ (input.fn = "_get_domain_object_validation_type" /\ input.id \notin DOMAIN rights_models) =>
           output.raised = OK

\* The stored posts, summaries and rights agree with each other.
InternallyConsistent ==
    /\ DOMAIN summary_models = DOMAIN blog_post_models
    /\ DOMAIN rights_models = DOMAIN blog_post_models
    /\ \A id \in DOMAIN blog_post_models : summary_models[id].title = blog_post_models[id].title
    /\ duplicate_title_groups(blog_post_models) = {}

----------------------------------------------------------------------------
(* Widget handlers *)

Param(name, default_value) == [name |-> name, default_value |-> default_value]

Widget(widget_type, id, category, params) ==
    [type |-> widget_type, id |-> id, category |-> category, params |-> params]

\* The widget definitions a registry can hold.
WidgetPool ==
    { Widget("interactive", "TextInput", "Basic Input",
             <<Param("placeholder", "Type your answer here."), Param("rows", "1")>>),
      Widget("interactive", "MultipleChoiceInput", "Basic Input", <<Param("choices", "Default choice")>>),
      Widget("interactive", "Continue", "Basic Input", <<>>),
      Widget("interactive", "NumericInput", "Mathematics", <<>>),
      Widget("noninteractive", "Image", "Basic Input", <<Param("filepath", "")>>) }

WidgetTypes == {"interactive", "noninteractive"}
WidgetTypeInputs == WidgetTypes \cup {"gadget"}
WidgetIdInputs == {w.id : w \in WidgetPool} \cup {"NoSuchWidget"}

\* The texts the sort compares, in ascending order.
StringsInOrder ==
    <<"", "1", "Continue", "Default choice", "Image", "MultipleChoiceInput", "NumericInput",
      "TextInput", "Type your answer here.", "choices", "filepath", "placeholder", "rows">>

string_rank(s) == CHOOSE i \in 1..Len(StringsInOrder) : StringsInOrder[i] = s

Perms(S) == {f \in [1..Cardinality(S) -> S] : \A i, j \in 1..Cardinality(S) : f[i] = f[j] => i = j}

\* widget_registry.Registry.get_widgets_of_type: the widgets of a type, in the
\* order the registry happens to hold them; an unknown type raises.
get_widgets_of_type(registry, widget_type) ==
    IF widget_type \notin WidgetTypes
    THEN {Returned(NoValue, "Exception")}
    ELSE {Returned(widget_list, OK) : widget_list \in Perms({w \in registry : w.type = widget_type})}

\* widget_registry.Registry.get_widget_by_id: an unknown type or id raises.
get_widget_by_id(registry, widget_type, widget_id) ==
    IF \E w \in registry : w.type = widget_type /\ w.id = widget_id
    THEN Returned(CHOOSE w \in registry : w.type = widget_type /\ w.id = widget_id, OK)
    ELSE Returned(NoValue, "Exception")

\* widget_domain: one entry of the description per declared parameter.
customization_arg(param, customization_args) ==
    [ name |-> param.name,
      value |-> IF param.name \in DOMAIN customization_args
                THEN customization_args[param.name]
                ELSE param.default_value,
      default_value |-> param.default_value ]

get_widget_instance_dict(widget, customization_args) ==
    LET args == [i \in 1..Len(widget.params) |-> customization_arg(widget.params[i], customization_args)]
    IN  [ widget_id |-> widget.id,
          category |-> widget.category,
          customization_args |-> args,
          tag |-> [element |-> widget.id, with_value |-> [i \in 1..Len(args) |-> args[i].value]] ]

\* Order of two descriptions of one category under list.sort(): the lists of
\* customization arguments are compared entry by entry (default_value, then
\* name, then value), a proper prefix coming first, then the fields that name
\* the widget, for which its id stands.
customization_arg_key(arg) ==
    <<string_rank(arg.default_value), string_rank(arg.name), string_rank(arg.value)>>

RECURSIVE ranks_cmp(_, _)
ranks_cmp(a, b) ==
    IF a = <<>> /\ b = <<>> THEN 0
    ELSE IF a = <<>> THEN -1
    ELSE IF b = <<>> THEN 1
    ELSE IF Head(a) < Head(b) THEN -1
    ELSE IF Head(a) > Head(b) THEN 1
    ELSE ranks_cmp(Tail(a), Tail(b))

RECURSIVE args_cmp(_, _)
args_cmp(a, b) ==
    IF a = <<>> /\ b = <<>> THEN 0
    ELSE IF a = <<>> THEN -1
    ELSE IF b = <<>> THEN 1
    ELSE IF ranks_cmp(customization_arg_key(Head(a)), customization_arg_key(Head(b))) # 0
    THEN ranks_cmp(customization_arg_key(Head(a)), customization_arg_key(Head(b)))
    ELSE args_cmp(Tail(a), Tail(b))

instance_dict_cmp(a, b) ==
    IF args_cmp(a.customization_args, b.customization_args) # 0
    THEN args_cmp(a.customization_args, b.customization_args)
    ELSE ranks_cmp(<<string_rank(a.widget_id)>>, <<string_rank(b.widget_id)>>)

RECURSIVE insert_sorted(_, _)
insert_sorted(sorted, d) ==
    IF sorted = <<>> THEN <<d>>
    ELSE IF instance_dict_cmp(d, Head(sorted)) < 0 THEN <<d>> \o sorted
    ELSE <<Head(sorted)>> \o insert_sorted(Tail(sorted), d)

RECURSIVE sort(_)
sort(list) ==
    IF list = <<>> THEN <<>> ELSE insert_sorted(sort(Tail(list)), Head(list))

SelectSeqByCategory(list, category) ==
    LET RECURSIVE sel(_)
        sel(l) == IF l = <<>> THEN <<>>
                  ELSE IF Head(l).category = category THEN <<Head(l)>> \o sel(Tail(l))
                  ELSE sel(Tail(l))
    IN  sel(list)

\* A response of a handler: the exception raised, or the JSON rendered.
Response(raised, json) == [raised |-> raised, json |-> json]

\* Mutant: the lists are rendered in the order of the registry.
WidgetRepositoryHandler_get_unsorted(got) ==
    IF got.raised # OK
    THEN Response("PageNotFoundException", NoValue)
    ELSE LET dicts == [i \in 1..Len(got.returned) |-> get_widget_instance_dict(got.returned[i], <<>>)]
             widgets == [c \in {got.returned[i].category : i \in 1..Len(got.returned)} |->
                            SelectSeqByCategory(dicts, c)]
         IN  Response(OK, [widgetRepository |-> widgets])

\* WidgetRepositoryHandler.get, given what the registry answered.
WidgetRepositoryHandler_get(got) ==
    IF got.raised # OK
    THEN Response("PageNotFoundException", NoValue)
    ELSE LET dicts == [i \in 1..Len(got.returned) |-> get_widget_instance_dict(got.returned[i], <<>>)]
             widgets == [c \in {got.returned[i].category : i \in 1..Len(got.returned)} |->
                            sort(SelectSeqByCategory(dicts, c))]
         IN  Response(OK, [widgetRepository |-> widgets])

\* Mutant: the customization arguments of the payload are not passed on.
WidgetHandler_post_without_payload(registry, widget_type, widget_id, payload) ==
    LET got == get_widget_by_id(registry, widget_type, widget_id)
    IN  IF got.raised # OK
        THEN Response(got.raised, NoValue)
        ELSE Response(OK, get_widget_instance_dict(got.returned, <<>>))

\* WidgetHandler.post: an exception of the registry is not caught.
WidgetHandler_post(registry, widget_type, widget_id, payload) ==
    LET widget_customization_args ==
            IF "customization_args" \in DOMAIN payload THEN payload.customization_args ELSE <<>>
        got == get_widget_by_id(registry, widget_type, widget_id)
    IN  IF got.raised # OK
        THEN Response(got.raised, NoValue)
        ELSE Response(OK, get_widget_instance_dict(got.returned, widget_customization_args))

CustomizationArgs ==
    { <<>>, ("placeholder" :> "F4"), ("rows" :> "2"), ("placeholder" :> "F4") @@ ("rows" :> "2"),
      ("choices" :> "F4") }

Payloads == {<<>>} \cup {[customization_args |-> a] : a \in CustomizationArgs}

\* input.registry is the registry of the process, which no request changes.
InitWidgets ==
    /\ InitStoreEmpty
    /\ input \in {[fn |-> "none", registry |-> r] : r \in SUBSET WidgetPool}
    /\ output = Response(OK, NoValue)

GetWidgetRepository ==
    \E widget_type \in WidgetTypeInputs :
        \E got \in get_widgets_of_type(input.registry, widget_type) :
            /\ input' = [fn |-> "WidgetRepositoryHandler.get", registry |-> input.registry,
                         widget_type |-> widget_type]
            /\ output' = WidgetRepositoryHandler_get(got)
            /\ UNCHANGED store

PostWidget ==
    \E widget_type \in WidgetTypeInputs, widget_id \in WidgetIdInputs, payload \in Payloads :
        /\ input' = [fn |-> "WidgetHandler.post", registry |-> input.registry,
                     widget_type |-> widget_type, widget_id |-> widget_id, payload |-> payload]
        /\ output' = WidgetHandler_post(input.registry, widget_type, widget_id, payload)
        /\ UNCHANGED store

NextWidgets ==
    \/ GetWidgetRepository
    \/ PostWidget

SpecWidgets == InitWidgets /\ [][NextWidgets]_vars

\* C25: a request for a widget type, or for a type and id, that is not
\* registered ends in the not-found condition, at the repository GET and at
\* the instance POST alike.
C25_UnregisteredIsNotFound ==
    /\ (input.fn = "WidgetRepositoryHandler.get" /\ input.widget_type \notin WidgetTypes) =>
           output.raised = "PageNotFoundException"
    /\ (/\ input.fn = "WidgetHandler.post"
        /\ ~\E w \in input.registry : w.type = input.widget_type /\ w.id = input.widget_id) =>
           output.raised = "PageNotFoundException"

\* The response to a repository GET for a registered type: its keys are the
\* categories, every registered widget of the type is once in the list of its
\* category, as its description without customization, and each list is sorted.
RepositoryListsEveryWidgetOnce ==
    (input.fn = "WidgetRepositoryHandler.get" /\ input.widget_type \in WidgetTypes) =>
        LET registered == {w \in input.registry : w.type = input.widget_type}
            widgets == output.json.widgetRepository
        IN  /\ output.raised = OK
            /\ DOMAIN widgets = {w.category : w \in registered}
            /\ \A w \in registered :
                   /\ Cardinality({i \in 1..Len(widgets[w.category]) : widgets[w.category][i].widget_id = w.id}) = 1
                   /\ \A i \in 1..Len(widgets[w.category]) :
                          widgets[w.category][i].widget_id = w.id =>
                              /\ widgets[w.category][i].category = w.category
                              /\ Len(widgets[w.category][i].customization_args) = Len(w.params)
                              /\ \A k \in 1..Len(w.params) :
                                     /\ widgets[w.category][i].customization_args[k].name = w.params[k].name
                                     /\ widgets[w.category][i].customization_args[k].value = w.params[k].default_value
            /\ \A c \in DOMAIN widgets :
                   /\ Len(widgets[c]) = Cardinality({w \in registered : w.category = c})
                   /\ \A i, j \in 1..Len(widgets[c]) : i < j => instance_dict_cmp(widgets[c][i], widgets[c][j]) < 0

\* C26: the repository GET for a registered type returns, keyed by category,
\* every registered widget of the type exactly once, in the list of its own
\* category, as its default description, each list sorted; and a repeated
\* request gets the same response.
C26_RepositoryResponse ==
    [][/\ RepositoryListsEveryWidgetOnce'
       /\ (input' = input /\ input.fn = "WidgetRepositoryHandler.get") => output' = output]_vars

\* The three interactive widgets of the category Basic Input are registered
\* and the response lists them in sorted order.
C26_Witness ==
    /\ input.fn = "WidgetRepositoryHandler.get"
    /\ input.widget_type = "interactive"
    /\ input.registry = WidgetPool
    /\ [i \in 1..3 |-> output.json.widgetRepository["Basic Input"][i].widget_id]
           = <<"Continue", "MultipleChoiceInput", "TextInput">>

\* C27: the description of a widget instance has one entry per declared
\* parameter, in the order declared, with the declared default_value, and the
\* value of the entry is the supplied one if one was supplied and the default
\* otherwise.
C27_ArgsMergedWithDefaults ==
    (input.fn = "WidgetHandler.post" /\ output.raised = OK) =>
        LET widget == CHOOSE w \in input.registry : w.type = input.widget_type /\ w.id = input.widget_id
            supplied == IF "customization_args" \in DOMAIN input.payload
                        THEN input.payload.customization_args ELSE <<>>
            args == output.json.customization_args
        IN  /\ output.json.widget_id = input.widget_id
            /\ Len(args) = Len(widget.params)
            /\ \A i \in 1..Len(args) :
                   /\ args[i].name = widget.params[i].name
                   /\ args[i].default_value = widget.params[i].default_value
                   /\ args[i].value = IF args[i].name \in DOMAIN supplied
                                      THEN supplied[args[i].name]
                                      ELSE widget.params[i].default_value

\* TextInput was requested with the placeholder F4 and no number of rows.
C27_Witness ==
    /\ input.fn = "WidgetHandler.post"
    /\ input.widget_id = "TextInput"
    /\ input.payload = [customization_args |-> ("placeholder" :> "F4")]
    /\ output.raised = OK
    /\ [i \in 1..2 |-> output.json.customization_args[i].value] = <<"F4", "1">>
    /\ [i \in 1..2 |-> output.json.customization_args[i].default_value] = <<"Type your answer here.", "1">>

\* The outcomes of the checks of BlogPost.validate, in the order id, title,
\* tags, thumbnail filename, content type, URL fragment, empty content.
checks_in_order(self, strict) ==
    << require_valid_blog_post_id(self.id),
       require_valid_title(self.title, strict),
       require_valid_tags(self.tags, strict),
       require_valid_thumbnail_filename(self.thumbnail_filename, strict),
       IF self.content = NoContent THEN "Expected contents to be a string" ELSE OK,
       IF strict THEN require_valid_url_fragment(self.url_fragment) ELSE OK,
       IF strict /\ self.content = "" THEN "Content can not be empty" ELSE OK >>

\* C28: BlogPost.validate reports the first check that fails in the order id,
\* title, tags, thumbnail filename, content type and, in strict mode, URL
\* fragment and empty content: a post without title is told 'Title should not
\* be empty', one with a title and no tags 'Atleast one tag should be
\* selected', one with title and tags and empty content 'Content can not be
\* empty'.
C28_FirstFailingCheckReported ==
    output # pending =>
        LET checks == checks_in_order(input.self, input.strict)
        IN  /\ \A i \in 1..Len(checks) :
                   (checks[i] # OK /\ \A j \in 1..(i - 1) : checks[j] = OK) => output = checks[i]
            /\ (\A i \in 1..Len(checks) : checks[i] = OK) => output = OK
            /\ (input.strict /\ checks[1] = OK /\ input.self.title = <<>>) =>
                   output = "Title should not be empty"
            /\ (input.strict /\ checks[1] = OK /\ checks[2] = OK /\ input.self.tags = <<>>) =>
                   output = "Atleast one tag should be selected"
            /\ (input.strict /\ (\A j \in 1..6 : checks[j] = OK) /\ input.self.content = "") =>
                   output = "Content can not be empty"

\* The post has no title, no tags and no content, and strict validation
\* reported the title.
C28_Witness ==
    /\ input.strict
    /\ input.self.title = <<>>
    /\ input.self.tags = <<>>
    /\ input.self.content = ""
    /\ output = "Title should not be empty"

\* The field an update_* method writes.
field_of(fn) ==
    CASE fn = "update_title" -> "title"
      [] fn = "update_url_fragment" -> "url_fragment"
      [] fn = "update_thumbnail_filename" -> "thumbnail_filename"
      [] fn = "update_content" -> "content"
      [] fn = "update_tags" -> "tags"

\* C29: a successful update_title, update_tags, update_content,
\* update_thumbnail_filename or update_url_fragment leaves every field of the
\* post but its own as it was, and validate leaves every field as it was.
C29_OnlyOwnFieldChanges ==
    /\ (input.fn \in Mutators /\ output.err = OK) =>
           /\ DOMAIN output.obj = DOMAIN input.self
           /\ \A f \in DOMAIN input.self \ {field_of(input.fn)} : output.obj[f] = input.self[f]
    /\ input.fn = "validate" => output.obj = input.self

\* A post with content, thumbnail and tags got its title set.
C29_Witness ==
    /\ input.fn = "update_title"
    /\ output.err = OK
    /\ input.self.title = <<>>
    /\ output.obj.title = <<"a", " ", "b">>
    /\ input.self.url_fragment = <<"a">>
    /\ input.self.tags = << <<"a">>, <<"b">> >>
    /\ input.self.content = "<p>Hello</p>"
    /\ output.obj = [input.self EXCEPT !.title = <<"a", " ", "b">>]

----------------------------------------------------------------------------
(* Strict against relaxed validation *)

\* Outcome of one check in the two modes.
BothModes(strict_outcome, relaxed_outcome) ==
    [stage |-> "returned", strict |-> strict_outcome, relaxed |-> relaxed_outcome]

InitBothModes ==
    /\ InitStoreEmpty
    /\ input \in {[fn |-> "BlogPost.validate", self |-> p] : p \in ValidatePosts}
                 \cup {[fn |-> "BlogPostSummary.validate", self |-> x] : x \in ValidateSummaries}
                 \cup {[fn |-> "require_valid_title", title |-> t] : t \in AllTitles}
                 \cup {[fn |-> "require_valid_tags", tags |-> t] : t \in TagLists}
                 \cup {[fn |-> "require_valid_thumbnail_filename", thumbnail_filename |-> f] : f \in ValidateThumbnails}
    /\ output = [stage |-> "pending"]

CallValidateBothModes ==
    /\ input.fn = "BlogPost.validate"
    /\ output.stage = "pending"
    /\ output' = BothModes(validate(input.self, TRUE), validate(input.self, FALSE))
    /\ UNCHANGED <<store, input>>

CallSummaryValidateBothModes ==
    /\ input.fn = "BlogPostSummary.validate"
    /\ output.stage = "pending"
    /\ output' = BothModes(BlogPostSummary_validate(input.self, TRUE), BlogPostSummary_validate(input.self, FALSE))
    /\ UNCHANGED <<store, input>>

CallTitleBothModes ==
    /\ input.fn = "require_valid_title"
    /\ output.stage = "pending"
    /\ output' = BothModes(require_valid_title(input.title, TRUE), require_valid_title(input.title, FALSE))
    /\ UNCHANGED <<store, input>>

CallTagsBothModes ==
    /\ input.fn = "require_valid_tags"
    /\ output.stage = "pending"
    /\ output' = BothModes(require_valid_tags(input.tags, TRUE), require_valid_tags(input.tags, FALSE))
    /\ UNCHANGED <<store, input>>

CallThumbnailBothModes ==
    /\ input.fn = "require_valid_thumbnail_filename"
    /\ output.stage = "pending"
    /\ output' = BothModes(require_valid_thumbnail_filename(input.thumbnail_filename, TRUE),
                           require_valid_thumbnail_filename(input.thumbnail_filename, FALSE))
    /\ UNCHANGED <<store, input>>

NextBothModes ==
    \/ CallValidateBothModes
    \/ CallSummaryValidateBothModes
    \/ CallTitleBothModes
    \/ CallTagsBothModes
    \/ CallThumbnailBothModes

SpecBothModes == InitBothModes /\ [][NextBothModes]_vars

\* C30: a BlogPost or a BlogPostSummary that passes validate(strict=True)
\* passes validate(strict=False), and a title, a tag list or a thumbnail
\* filename that passes its check in strict mode passes it in relaxed mode.
C30_StrictImpliesRelaxed ==
    output.stage = "returned" => (output.strict = OK => output.relaxed = OK)

\* A summary passed strict validation, and relaxed validation with it.
C30_Witness ==
    /\ input.fn = "BlogPostSummary.validate"
    /\ output.stage = "returned"
    /\ output.strict = OK
    /\ output.relaxed = OK

====
